---- MODULE Spec2Model ----
(***************************************************************************)
(* postmanpat rule tooling.                                                *)
(*                                                                         *)
(*   bin/postmanpat-generate-rules.py          the interactive session     *)
(*   bin/postmanpat-convert-watch-to-cleanup.py  the batch converter       *)
(*                                                                         *)
(* The specifications of the module:                                       *)
(*   Spec           one run of the interactive session (generate-rules)    *)
(*   SpecRerun      the session run, killed and re-run over the same files *)
(*   SpecSession    one run with an operator typing at the text prompts    *)
(*   SpecMalformed  one run over a cluster list with a non-mapping element *)
(*   SpecBatch      the batch converter (convert-watch-to-cleanup)         *)
(*   SpecMatcher    the converter over client matchers of every kind       *)
(*   SpecQuote      the two yaml_quote functions on bounded strings        *)
(*   SpecWriter     write_yaml on bounded rule sets, and reading it back   *)
(*   SpecPattern    escape_regex, regex_to_substring and warn_if_regexy    *)
(***************************************************************************)
EXTENDS Integers, Sequences, FiniteSets, TLC

\* Python's None, and the value .get() yields for a missing key.
None == "<None>"

-----------------------------------------------------------------------------
(* Bounds of the model *)

\* Clusters in the analysis input, both lenses together.
MaxClusters == 3
\* The same where the generator is run again.
MaxRerunClusters == 2
\* Runs of the generator over the same input and files.
MaxRuns == 2
\* Entries of the "rules" sequence of the converter's input.
MaxRules == 3
\* Characters of a scalar handed to yaml_quote.
MaxQuoteLen == 3
\* Rules of a rule set handed to write_yaml.
MaxWriterRules == 2
\* Characters of a string handed to escape_regex or regex_to_substring.
MaxPatternLen == 3
\* Entries of the "rules" sequence where the client matchers vary.
MaxMatcherRules == 3

-----------------------------------------------------------------------------
(* Helpers *)

Last(s) == s[Len(s)]

Range(s) == {s[k] : k \in 1..Len(s)}

\* Sequences over S of length at most n.
SeqsUpTo(S, n) == UNION {[1..k -> S] : k \in 0..n}

\* Those without a repeated element.
InjSeqs(S, n) ==
  {s \in SeqsUpTo(S, n) : \A a, b \in 1..Len(s) : a # b => s[a] # s[b]}

\* Python truthiness of None and of a string.
Truthy(v) == v # None /\ v # ""

-----------------------------------------------------------------------------
(* Strings as sequences of characters *)

\* str.replace(old, new) for a one-character old.
RECURSIVE Replace(_, _, _)
Replace(value, old, new) ==
  IF value = <<>> THEN <<>>
  ELSE (IF value[1] = old THEN new ELSE <<value[1]>>) \o Replace(Tail(value), old, new)

Contains(value, ch) == \E k \in 1..Len(value) : value[k] = ch

\* str.split(sep) for a one-character sep.
RECURSIVE Split(_, _)
Split(value, sep) ==
  IF ~Contains(value, sep) THEN <<value>>
  ELSE LET k == CHOOSE k \in 1..Len(value) :
                  value[k] = sep /\ \A m \in 1..(k - 1) : value[m] # sep
       IN  <<SubSeq(value, 1, k - 1)>> \o Split(SubSeq(value, k + 1, Len(value)), sep)

\* str.strip() of blanks.
RECURSIVE Strip(_)
Strip(value) ==
  IF value = <<>> THEN <<>>
  ELSE IF value[1] = " " THEN Strip(Tail(value))
  ELSE IF Last(value) = " " THEN Strip(SubSeq(value, 1, Len(value) - 1))
  ELSE value

\* ", ".join(items)
RECURSIVE Join(_)
Join(items) ==
  IF items = <<>> THEN <<>>
  ELSE IF Len(items) = 1 THEN items[1]
  ELSE items[1] \o <<",", " ">> \o Join(Tail(items))

\* The characters re.escape puts a backslash before.
EscapeSpecials ==
  {"(", ")", "[", "]", "{", "}", "?", "*", "+", "-", "|", "^", "$", "\\", ".",
   "&", "~", "#", " ", "\t", "\n", "\r", "\f"}

\* escape_regex: re.escape(value).
RECURSIVE escape_regex(_)
escape_regex(value) ==
  IF value = <<>> THEN <<>>
  ELSE (IF value[1] \in EscapeSpecials THEN <<"\\", value[1]>> ELSE <<value[1]>>)
       \o escape_regex(Tail(value))

-----------------------------------------------------------------------------
(* The generator: state *)

VARIABLES
  analyze,          \* the analysis document at --analyze (never written)
  ckptFile,         \* the checkpoint file
  watchFile,        \* the file at --watch-out
  cleanupFile,      \* the file at --cleanup-out
  pc,               \* where main is
  run,              \* which run of the program this is
  exitCode,         \* the process's exit code, None while it runs
  clusters,         \* main: clusters
  checkpoint,       \* main: checkpoint
  resumed,          \* main: resumed
  resume_found,     \* main: resume_found
  i,                \* position of the for loop of main in clusters
  watch_rules,      \* main: watch_rules
  cleanup_rules,    \* main: cleanup_rules
  default_folders,  \* main: default_folders
  warned,           \* the stale-checkpoint warning was printed in this run
  presented,        \* enumeration positions shown to the operator in this run
  answers,          \* the operator's tri-state answers of this run, per cluster
  wrote,            \* the output files written in this run
  ckptBeforeSave,   \* the checkpoint file as it was when the last save began
  lastCompleted,    \* last enumeration position whose iteration finished
  prevLast,         \* lastCompleted when this run began
  texts,            \* the lines the operator types at free-text prompts
  earlier           \* the rules of checkpointed clusters, over all runs, and
                    \* the output files as they were when this run began

gvars == <<analyze, ckptFile, watchFile, cleanupFile, pc, run, exitCode,
           clusters, checkpoint, resumed, resume_found, i, watch_rules,
           cleanup_rules, default_folders, warned, presented, answers,
           wrote, ckptBeforeSave, lastCompleted, prevLast, texts, earlier>>

-----------------------------------------------------------------------------
(* The converter: state *)

VARIABLES
  watchDoc,         \* the document at --watch
  foldersArg,       \* the --folders argument
  outFile,          \* the file at --out
  bpc,              \* where the converter's main is
  bExit,            \* its exit code, None while it runs
  failure,          \* the error it ended with
  folders,          \* main: folders
  rules,            \* main: rules
  converted_rules,  \* main: converted_rules
  ri,               \* position of the for loop of main in rules
  warnings          \* the patterns warn_if_regexy warned about

bvars == <<watchDoc, foldersArg, outFile, bpc, bExit, failure, folders, rules,
           converted_rules, ri, warnings>>

-----------------------------------------------------------------------------
(* The writers' yaml_quote: state *)

VARIABLES
  qvalue,           \* the scalar, a sequence of characters
  qgen,             \* yaml_quote of the generator applied to it, <<>> before
  qconv             \* yaml_quote of the converter applied to it, <<>> before

qvars == <<qvalue, qgen, qconv>>

-----------------------------------------------------------------------------
(* The writers' yaml_lines and write_yaml: state *)

VARIABLES
  wtree,            \* the value tree handed to write_yaml
  wgen,             \* the file write_yaml of the generator wrote
  wconv             \* the file write_yaml of the converter wrote

wvars == <<wtree, wgen, wconv>>

-----------------------------------------------------------------------------
(* escape_regex, regex_to_substring and warn_if_regexy: state *)

VARIABLES
  pvalue,           \* a string: a literal, or a pattern of a watch rule
  pescaped,         \* escape_regex(pvalue), once computed
  pliteral,         \* regex_to_substring(pescaped), once computed
  pmapped,          \* regex_to_substring(pvalue), once computed
  pwarned           \* whether warn_if_regexy warned about pvalue

pvars == <<pvalue, pescaped, pliteral, pmapped, pwarned>>

-----------------------------------------------------------------------------
(* The generator: values *)

\* iter_clusters: the two lenses, in this order.
Lenses == <<"list_lens", "sender_lens">>

\* str(cluster.get("cluster_id", "")) of the clusters of the input; "" is a
\* cluster without a cluster_id.
ClusterIds == {"", "a", "b"}

\* The same for the runs that start without a checkpoint file, where an id
\* matters only by being empty or not and by being unique in its lens.
RerunClusterIds == {"", "a"}

\* The checkpoint file: absent, a JSON object, or (during a save) truncated
\* or holding a prefix of the document.
AbsentFile == [kind |-> "absent", lens |-> None, cluster_id |-> None]
EmptyFile == [kind |-> "empty", lens |-> None, cluster_id |-> None]
PartialFile == [kind |-> "partial", lens |-> None, cluster_id |-> None]
CkptRecord(lens, cluster_id) ==
  [kind |-> "record", lens |-> lens, cluster_id |-> cluster_id]

\* What the operator may type at a [y/n/q] prompt.
RawAnswers == {"", "y", "n", "q", "quit", "maybe"}

\* An operator who presses Enter at every free-text prompt, and one who also
\* types a lone comma or two items.
EnterOnly == {<<>>}
SessionTexts == {<<>>, <<",">>, <<"J", ",", "K">>}

\* main, line 339.
INBOX == <<"I", "N", "B", "O", "X">>

\* An element of a lens's "clusters" list. The cluster with id "a" carries
\* its keys (ListID in list_lens, SenderDomains in sender_lens); the others
\* have no "keys", or empty ones.
ClusterEntry(id) ==
  [mapping |-> TRUE, cluster_id |-> id,
   ListID |-> IF id = "a" THEN <<"l", ".">> ELSE <<>>,
   SenderDomains |-> IF id = "a" THEN << <<"s", ".">> >> ELSE <<>>]

\* An element that is no mapping (a string, a number, null).
NonMappingEntry ==
  [mapping |-> FALSE, cluster_id |-> None, ListID |-> <<>>, SenderDomains |-> <<>>]

NoFile == [exists |-> FALSE, rules |-> <<>>]

-----------------------------------------------------------------------------
(* The generator: functions *)

\* prompt_yes_no, after strip().lower().
prompt_yes_no(response, default) ==
  IF response = "" THEN (IF default THEN "y" ELSE "n")
  ELSE IF response \in {"q", "quit"} THEN "q"
  ELSE IF response \notin {"y", "n"} THEN "n"
  ELSE response

\* iter_clusters: list_lens clusters, then sender_lens clusters, each in input
\* order; a missing lens or a missing "clusters" key is an empty list.
iter_clusters(indexes) ==
  LET Tagged(lens, entry) ==
        [lens |-> lens, mapping |-> entry.mapping, cluster_id |-> entry.cluster_id,
         ListID |-> entry.ListID, SenderDomains |-> entry.SenderDomains]
  IN  [k \in 1..Len(indexes.list_lens) |-> Tagged(Lenses[1], indexes.list_lens[k])]
      \o
      [k \in 1..Len(indexes.sender_lens) |-> Tagged(Lenses[2], indexes.sender_lens[k])]

\* json.load of the checkpoint file raises on an empty or cut document.
JsonMalformed(file) == file.kind \in {"empty", "partial"}

\* load_checkpoint: None when the file does not exist.
load_checkpoint(file) == IF file.kind = "absent" THEN AbsentFile ELSE file

\* `checkpoint.get("lens") if checkpoint else None`. A record whose two keys
\* are None also stands for the empty object, which is falsy and yields the
\* same two None values.
resume_lens_of(ckpt) == IF ckpt.kind = "record" THEN ckpt.lens ELSE None
resume_cluster_of(ckpt) == IF ckpt.kind = "record" THEN ckpt.cluster_id ELSE None

\* main, line 342: the checkpoint names a cluster of the enumeration.
CheckpointInClusters(ckpt, cs) ==
  \E k \in 1..Len(cs) :
    cs[k].lens = resume_lens_of(ckpt) /\ cs[k].cluster_id = resume_cluster_of(ckpt)

\* main, line 342: any() stops at the first match; cluster.get on an element
\* of the checkpoint's lens before it that is no mapping raises AttributeError.
ResumeCheckRaises(ckpt, cs) ==
  \E k \in 1..Len(cs) :
    /\ cs[k].lens = resume_lens_of(ckpt)
    /\ ~cs[k].mapping
    /\ \A m \in 1..(k - 1) :
         ~(cs[m].lens = resume_lens_of(ckpt) /\ cs[m].cluster_id = resume_cluster_of(ckpt))

\* main, line 341: the guard of the resume check.
ResumeChecked(ckpt) ==
  ckpt.kind = "record" /\ Truthy(resume_lens_of(ckpt)) /\ Truthy(resume_cluster_of(ckpt))

\* main, lines 334 and 341-346: resumed before the loop.
ResumedAtStart(ckpt, cs) ==
  \/ resume_lens_of(ckpt) = None
  \/ ResumeChecked(ckpt) /\ ~CheckpointInClusters(ckpt, cs)

\* main, line 346: the warning.
WarnsStale(ckpt, cs) == ResumeChecked(ckpt) /\ ~CheckpointInClusters(ckpt, cs)

\* main, line 351: the loop reached the checkpointed cluster.
IsResumePoint(ckpt, cluster) ==
  cluster.lens = resume_lens_of(ckpt) /\ cluster.cluster_id = resume_cluster_of(ckpt)

\* split_list: the stripped, non-empty items between commas.
split_list(value) ==
  LET items == Split(value, ",")
      stripped == [k \in 1..Len(items) |-> Strip(items[k])]
      NonEmpty(item) == item # <<>>
  IN  SelectSeq(stripped, NonEmpty)

\* prompt with a default that is a string: line 29 returns the default on
\* empty input, the empty default too, before `required` is looked at.
prompt(response, default) ==
  IF Strip(response) = <<>> THEN default ELSE Strip(response)

\* build_watch_rule_list / build_watch_rule_sender: the rule of cluster k,
\* the operator typing response at the regex prompt. The rule's name, its
\* action and the optional lists of a sender rule are left out.
build_watch_rule(k, cluster, response) ==
  [cluster |-> k,
   matcher |-> "client",
   field |-> IF cluster.lens = "list_lens" THEN "list_id_regex" ELSE "sender_regex",
   values |->
     IF cluster.lens = "list_lens"
     THEN LET key == Strip(cluster.ListID)
              default_regex == IF key # <<>> THEN escape_regex(key) ELSE <<>>
          IN  <<prompt(response, default_regex)>>
     ELSE LET sender_defaults ==
                [d \in 1..Len(cluster.SenderDomains) |->
                   escape_regex(cluster.SenderDomains[d])]
          IN  split_list(prompt(response, Join(sender_defaults))),
   folders |-> <<>>]

\* prompt_folders: asks again until the list is not empty.
RECURSIVE prompt_folders(_, _)
prompt_folders(responses, default) ==
  LET chosen == split_list(prompt(responses[1], default))
  IN  IF chosen # <<>> \/ Len(responses) = 1 THEN chosen
      ELSE prompt_folders(Tail(responses), default)

\* What the operator types at the folders prompt until it lets go: lines
\* that hold no folder, then one that does.
FolderTyping(lines, default) ==
  {responses \in SeqsUpTo(lines, 2) :
     /\ responses # <<>>
     /\ \A k \in 1..Len(responses) :
          (split_list(prompt(responses[k], default)) # <<>>) <=> (k = Len(responses))}

\* build_cleanup_rule_list / build_cleanup_rule_sender.
build_cleanup_rule(k, cluster, response, chosen) ==
  [cluster |-> k,
   matcher |-> "server",
   field |-> IF cluster.lens = "list_lens" THEN "list_id_substring" ELSE "sender_substring",
   values |->
     IF cluster.lens = "list_lens"
     THEN <<prompt(response, Strip(cluster.ListID))>>
     ELSE split_list(prompt(response, Join(cluster.SenderDomains))),
   folders |-> chosen]

-----------------------------------------------------------------------------
(* The generator: inputs and initial state *)

\* The analysis documents whose "indexes" hold the two lenses' cluster lists:
\* at most n clusters, their ids among ids and unique within a lens.
WellShapedDocs(ids, n) ==
  LET entries == {ClusterEntry(id) : id \in ids}
  IN  {d \in {[shape |-> "ok", list_lens |-> l, sender_lens |-> s] :
                 l \in InjSeqs(entries, n), s \in InjSeqs(entries, n)} :
         Len(d.list_lens) + Len(d.sender_lens) <= n}

\* Documents with an element that is no mapping among the clusters of
\* list_lens: alone, first, in the middle, last.
MalformedDocs ==
  {[shape |-> "ok", list_lens |-> l, sender_lens |-> s] :
     l \in {<<NonMappingEntry>>,
            <<NonMappingEntry, ClusterEntry("a")>>,
            <<ClusterEntry("a"), NonMappingEntry, ClusterEntry("b")>>,
            <<ClusterEntry("a"), ClusterEntry("b"), NonMappingEntry>>},
     s \in {<<>>, <<ClusterEntry("a")>>}}

\* The analysis document: unreadable or not JSON; JSON but not a mapping;
\* a mapping without "indexes"; or a well-shaped one.
AnalyzeDocs ==
  {[shape |-> sh, list_lens |-> <<>>, sender_lens |-> <<>>] :
     sh \in {"unreadable", "nonmapping", "noindexes"}}
  \cup WellShapedDocs(ClusterIds, MaxClusters)

\* The checkpoint file before the first run: absent, or an object whose
\* "lens" and "cluster_id" are the two strings save_checkpoint writes, or one
\* with a key missing or empty.
CheckpointFiles ==
  {AbsentFile}
  \cup {CkptRecord(l, c) : l \in {"list_lens", "sender_lens"}, c \in {"", "a", "z"}}
  \cup {CkptRecord(None, "a"), CkptRecord("", "a"), CkptRecord("list_lens", None)}

RunLocalsInit ==
  /\ pc = "start"
  /\ exitCode = None
  /\ clusters = <<>>
  /\ checkpoint = AbsentFile
  /\ resumed = FALSE
  /\ resume_found = FALSE
  /\ i = 0
  /\ watch_rules = <<>>
  /\ cleanup_rules = <<>>
  /\ default_folders = INBOX
  /\ warned = FALSE
  /\ presented = <<>>
  /\ answers = <<>>
  /\ wrote = {}

InitFiles ==
  /\ analyze \in AnalyzeDocs
  /\ ckptFile \in CheckpointFiles
  /\ texts = EnterOnly

InitGen ==
  /\ watchFile = NoFile
  /\ cleanupFile = NoFile
  /\ run = 1
  /\ ckptBeforeSave = AbsentFile
  /\ lastCompleted = 0
  /\ prevLast = 0
  /\ earlier = [watch |-> <<>>, cleanup |-> <<>>,
                watchBefore |-> NoFile, cleanupBefore |-> NoFile]
  /\ RunLocalsInit

-----------------------------------------------------------------------------
(* The generator: main *)

\* The rules of a rule list that were built for the cluster at position k.
RulesOf(rs, k) ==
  LET IsOfCluster(rule) == rule.cluster = k
  IN  SelectSeq(rs, IsOfCluster)

files == <<analyze, ckptFile, watchFile, cleanupFile>>
loopLocals == <<clusters, checkpoint, resumed, resume_found>>
accumulators == <<watch_rules, cleanup_rules, default_folders>>
history == <<ckptBeforeSave, lastCompleted, prevLast>>

\* main, lines 322-326: the analysis file cannot be opened or parsed.
LoadFails ==
  /\ UNCHANGED <<texts, earlier, bvars, qvars, wvars, pvars>>
  /\ pc = "start"
  /\ analyze.shape = "unreadable"
  /\ pc' = "done"
  /\ exitCode' = 1
  /\ UNCHANGED <<files, run, loopLocals, i, accumulators, warned, presented,
                 answers, wrote, history>>

\* main, line 328: data.get on a document that is no mapping raises
\* AttributeError; line 331: json.load of a cut checkpoint file raises
\* JSONDecodeError; line 342: cluster.get on an element that is no mapping
\* raises AttributeError. None is caught: traceback, exit code 1.
StartCrashes ==
  /\ UNCHANGED <<texts, earlier, bvars, qvars, wvars, pvars>>
  /\ pc = "start"
  /\ \/ analyze.shape = "nonmapping"
     \/ analyze.shape \in {"noindexes", "ok"} /\ JsonMalformed(ckptFile)
     \/ /\ analyze.shape \in {"noindexes", "ok"}
        /\ ~JsonMalformed(ckptFile)
        /\ ResumeChecked(load_checkpoint(ckptFile))
        /\ ResumeCheckRaises(load_checkpoint(ckptFile), iter_clusters(analyze))
  /\ pc' = "crashed"
  /\ exitCode' = 1
  /\ UNCHANGED <<files, run, loopLocals, i, accumulators, warned, presented,
                 answers, wrote, history>>

\* main, lines 328-346.
StartRun ==
  /\ UNCHANGED <<texts, earlier, bvars, qvars, wvars, pvars>>
  /\ pc = "start"
  /\ analyze.shape \in {"noindexes", "ok"}
  /\ ~JsonMalformed(ckptFile)
  /\ ~(/\ ResumeChecked(load_checkpoint(ckptFile))
       /\ ResumeCheckRaises(load_checkpoint(ckptFile), iter_clusters(analyze)))
  /\ LET cs == iter_clusters(analyze)
         ckpt == load_checkpoint(ckptFile)
     IN  /\ clusters' = cs
         /\ checkpoint' = ckpt
         /\ resumed' = ResumedAtStart(ckpt, cs)
         /\ resume_found' = (ResumeChecked(ckpt) /\ CheckpointInClusters(ckpt, cs))
         /\ warned' = WarnsStale(ckpt, cs)
  /\ watch_rules' = <<>>
  /\ cleanup_rules' = <<>>
  /\ default_folders' = INBOX
  /\ i' = 1
  /\ pc' = "loop"
  /\ UNCHANGED <<files, run, exitCode, presented, answers, wrote, history>>

\* SkipCluster without the `continue` of line 353: the loop falls through to
\* process_cluster with the checkpointed cluster itself.
SkipCluster_FallsThrough ==
  /\ UNCHANGED <<texts, earlier, bvars, qvars, wvars, pvars>>
  /\ pc = "loop"
  /\ i <= Len(clusters)
  /\ clusters[i].mapping
  /\ ~resumed
  /\ resumed' = IsResumePoint(checkpoint, clusters[i])
  /\ i' = IF IsResumePoint(checkpoint, clusters[i]) THEN i ELSE i + 1
  /\ UNCHANGED <<files, pc, run, exitCode, clusters, checkpoint, resume_found,
                 accumulators, warned, presented, answers, wrote, history>>

\* main, lines 348-354: a cluster at or before the checkpointed one.
SkipCluster ==
  /\ UNCHANGED <<texts, earlier, bvars, qvars, wvars, pvars>>
  /\ pc = "loop"
  /\ i <= Len(clusters)
  /\ clusters[i].mapping
  /\ ~resumed
  /\ resumed' = IsResumePoint(checkpoint, clusters[i])
  /\ i' = i + 1
  /\ UNCHANGED <<files, pc, run, exitCode, clusters, checkpoint, resume_found,
                 accumulators, warned, presented, answers, wrote, history>>

\* main, line 349: cluster.get on an element that is no mapping raises
\* AttributeError, be the loop skipping or not; nothing catches it.
LoopCrashes ==
  /\ UNCHANGED <<texts, earlier, bvars, qvars, wvars, pvars>>
  /\ pc = "loop"
  /\ i <= Len(clusters)
  /\ ~clusters[i].mapping
  /\ pc' = "crashed"
  /\ exitCode' = 1
  /\ UNCHANGED <<files, run, loopLocals, i, accumulators, warned, presented,
                 answers, wrote, history>>

\* main, line 356 and process_cluster, lines 265-272: the cluster is shown
\* and the first prompt waits for the operator. In answers, offered is the
\* default the folders prompt of the cluster offered and saved tells that
\* save_checkpoint returned for it.
PresentCluster ==
  /\ UNCHANGED <<texts, earlier, bvars, qvars, wvars, pvars>>
  /\ pc = "loop"
  /\ i <= Len(clusters)
  /\ clusters[i].mapping
  /\ resumed
  /\ presented' = Append(presented, i)
  /\ answers' = Append(answers, [watch |-> "-", cleanup |-> "-",
                                 offered |-> <<>>, saved |-> FALSE])
  /\ pc' = "watch_prompt"
  /\ UNCHANGED <<files, run, exitCode, loopLocals, i, accumulators, warned,
                 wrote, history>>

\* AnswerWatch with a quit that ends the cluster but not the session (main
\* without the break of line 364).
AnswerWatch_QuitGoesOn ==
  /\ UNCHANGED <<texts, earlier, bvars, qvars, wvars, pvars>>
  /\ pc = "watch_prompt"
  /\ \E response \in RawAnswers, regex \in texts :
       LET watch_response == prompt_yes_no(response, FALSE)
       IN  /\ answers' = [answers EXCEPT ![Len(answers)].watch = watch_response]
           /\ IF watch_response = "q"
              THEN /\ pc' = "save_open"
                   /\ UNCHANGED watch_rules
              ELSE /\ pc' = "cleanup_prompt"
                   /\ watch_rules' =
                        IF watch_response = "y"
                        THEN Append(watch_rules,
                                    build_watch_rule(i, clusters[i], regex))
                        ELSE watch_rules
  /\ UNCHANGED <<files, run, exitCode, loopLocals, i, cleanup_rules,
                 default_folders, warned, presented, wrote, history>>

\* process_cluster, lines 272-282, and main, lines 363-364 on quit.
AnswerWatch ==
  /\ UNCHANGED <<texts, earlier, bvars, qvars, wvars, pvars>>
  /\ pc = "watch_prompt"
  /\ \E response \in RawAnswers, regex \in texts :
       LET watch_response == prompt_yes_no(response, FALSE)
       IN  /\ answers' = [answers EXCEPT ![Len(answers)].watch = watch_response]
           /\ IF watch_response = "q"
              THEN /\ pc' = "write_watch"
                   /\ UNCHANGED watch_rules
              ELSE /\ pc' = "cleanup_prompt"
                   /\ watch_rules' =
                        IF watch_response = "y"
                        THEN Append(watch_rules,
                                    build_watch_rule(i, clusters[i], regex))
                        ELSE watch_rules
  /\ UNCHANGED <<files, run, exitCode, loopLocals, i, cleanup_rules,
                 default_folders, warned, presented, wrote, history>>

\* AnswerCleanup with the checkpoint saved only for a cluster that got a rule.
AnswerCleanup_SaveIfRule ==
  /\ UNCHANGED <<texts, earlier, bvars, qvars, wvars, pvars>>
  /\ pc = "cleanup_prompt"
  /\ \E response \in RawAnswers, substring \in texts,
          typed \in FolderTyping(texts, default_folders) :
       LET cleanup_response == prompt_yes_no(response, FALSE)
           chosen == prompt_folders(typed, default_folders)
       IN  /\ answers' =
                [answers EXCEPT ![Len(answers)].cleanup = cleanup_response,
                                ![Len(answers)].offered =
                                  IF cleanup_response = "y" THEN default_folders
                                  ELSE <<>>]
           /\ IF cleanup_response = "q"
              THEN /\ pc' = "write_watch"
                   /\ UNCHANGED <<cleanup_rules, default_folders, i>>
              ELSE IF cleanup_response = "y"
              THEN /\ pc' = "save_open"
                   /\ cleanup_rules' =
                        Append(cleanup_rules,
                               build_cleanup_rule(i, clusters[i], substring, chosen))
                   /\ default_folders' = Join(chosen)
                   /\ UNCHANGED i
              ELSE /\ pc' = IF Last(answers).watch = "y" THEN "save_open" ELSE "loop"
                   /\ i' = IF Last(answers).watch = "y" THEN i ELSE i + 1
                   /\ UNCHANGED <<cleanup_rules, default_folders>>
  /\ UNCHANGED <<files, run, exitCode, loopLocals, watch_rules, warned,
                 presented, wrote, history>>

\* AnswerCleanup that offers INBOX at every folders prompt (main dropping
\* the default_folders process_cluster returns).
AnswerCleanup_DefaultNotRolled ==
  /\ UNCHANGED <<texts, earlier, bvars, qvars, wvars, pvars>>
  /\ pc = "cleanup_prompt"
  /\ \E response \in RawAnswers, substring \in texts,
          typed \in FolderTyping(texts, default_folders) :
       LET cleanup_response == prompt_yes_no(response, FALSE)
           chosen == prompt_folders(typed, default_folders)
       IN  /\ answers' =
                [answers EXCEPT ![Len(answers)].cleanup = cleanup_response,
                                ![Len(answers)].offered =
                                  IF cleanup_response = "y" THEN default_folders
                                  ELSE <<>>]
           /\ IF cleanup_response = "q"
              THEN /\ pc' = "write_watch"
                   /\ UNCHANGED <<cleanup_rules, default_folders>>
              ELSE /\ pc' = "save_open"
                   /\ IF cleanup_response = "y"
                      THEN /\ cleanup_rules' =
                                Append(cleanup_rules,
                                       build_cleanup_rule(i, clusters[i],
                                                          substring, chosen))
                           /\ UNCHANGED default_folders
                      ELSE UNCHANGED <<cleanup_rules, default_folders>>
  /\ UNCHANGED <<files, run, exitCode, loopLocals, i, watch_rules, warned,
                 presented, wrote, history>>

\* AnswerCleanup with a quit that saves the checkpoint of the cluster it was
\* given at.
AnswerCleanup_QuitSaves ==
  /\ UNCHANGED <<texts, earlier, bvars, qvars, wvars, pvars>>
  /\ pc = "cleanup_prompt"
  /\ \E response \in RawAnswers, substring \in texts,
          typed \in FolderTyping(texts, default_folders) :
       LET cleanup_response == prompt_yes_no(response, FALSE)
           chosen == prompt_folders(typed, default_folders)
       IN  /\ answers' =
                [answers EXCEPT ![Len(answers)].cleanup = cleanup_response,
                                ![Len(answers)].offered =
                                  IF cleanup_response = "y" THEN default_folders
                                  ELSE <<>>]
           /\ IF cleanup_response = "q"
              THEN /\ pc' = "save_open"
                   /\ UNCHANGED <<cleanup_rules, default_folders>>
              ELSE /\ pc' = "save_open"
                   /\ IF cleanup_response = "y"
                      THEN /\ cleanup_rules' =
                                Append(cleanup_rules,
                                       build_cleanup_rule(i, clusters[i],
                                                          substring, chosen))
                           /\ default_folders' = Join(chosen)
                      ELSE UNCHANGED <<cleanup_rules, default_folders>>
  /\ UNCHANGED <<files, run, exitCode, loopLocals, i, watch_rules, warned,
                 presented, wrote, history>>

\* process_cluster, lines 284-296, and main, lines 363-364 on quit.
AnswerCleanup ==
  /\ UNCHANGED <<texts, earlier, bvars, qvars, wvars, pvars>>
  /\ pc = "cleanup_prompt"
  /\ \E response \in RawAnswers, substring \in texts,
          typed \in FolderTyping(texts, default_folders) :
       LET cleanup_response == prompt_yes_no(response, FALSE)
           chosen == prompt_folders(typed, default_folders)
       IN  /\ answers' =
                [answers EXCEPT ![Len(answers)].cleanup = cleanup_response,
                                ![Len(answers)].offered =
                                  IF cleanup_response = "y" THEN default_folders
                                  ELSE <<>>]
           /\ IF cleanup_response = "q"
              THEN /\ pc' = "write_watch"
                   /\ UNCHANGED <<cleanup_rules, default_folders>>
              ELSE /\ pc' = "save_open"
                   /\ IF cleanup_response = "y"
                      THEN /\ cleanup_rules' =
                                Append(cleanup_rules,
                                       build_cleanup_rule(i, clusters[i],
                                                          substring, chosen))
                           /\ default_folders' = Join(chosen)
                      ELSE UNCHANGED <<cleanup_rules, default_folders>>
  /\ UNCHANGED <<files, run, exitCode, loopLocals, i, watch_rules, warned,
                 presented, wrote, history>>

\* save_checkpoint, line 108: open(path, "w") truncates the file.
SaveOpen ==
  /\ UNCHANGED <<texts, earlier, bvars, qvars, wvars, pvars>>
  /\ pc = "save_open"
  /\ ckptBeforeSave' = ckptFile
  /\ ckptFile' = EmptyFile
  /\ pc' = "save_dump"
  /\ UNCHANGED <<analyze, watchFile, cleanupFile, run, exitCode, loopLocals, i,
                 accumulators, warned, presented, answers, wrote,
                 lastCompleted, prevLast>>

\* save_checkpoint, line 109: json.dump writes the document in pieces; a
\* flush of the handle before the last piece leaves a prefix in the file.
SaveFlushPart ==
  /\ UNCHANGED <<texts, earlier, bvars, qvars, wvars, pvars>>
  /\ pc = "save_dump"
  /\ ckptFile = EmptyFile
  /\ ckptFile' = PartialFile
  /\ UNCHANGED <<analyze, watchFile, cleanupFile, pc, run, exitCode, loopLocals,
                 i, accumulators, warned, presented, answers, wrote, history>>

\* save_checkpoint, lines 109-110, the handle closed: the document is in the
\* file; main, line 348: the loop goes on to the next cluster.
SaveClose ==
  /\ UNCHANGED <<texts, bvars, qvars, wvars, pvars>>
  /\ pc = "save_dump"
  /\ earlier' = [earlier EXCEPT !.watch = @ \o RulesOf(watch_rules, i),
                                !.cleanup = @ \o RulesOf(cleanup_rules, i)]
  /\ ckptFile' = CkptRecord(clusters[i].lens, clusters[i].cluster_id)
  /\ lastCompleted' = i
  /\ answers' = [answers EXCEPT ![Len(answers)].saved = TRUE]
  /\ i' = i + 1
  /\ pc' = "loop"
  /\ UNCHANGED <<analyze, watchFile, cleanupFile, run, exitCode, loopLocals,
                 accumulators, warned, presented, wrote, ckptBeforeSave,
                 prevLast>>

\* main, line 348: the for loop is exhausted.
LoopEnd ==
  /\ UNCHANGED <<texts, earlier, bvars, qvars, wvars, pvars>>
  /\ pc = "loop"
  /\ i > Len(clusters)
  /\ pc' = "write_watch"
  /\ UNCHANGED <<files, run, exitCode, loopLocals, i, accumulators, warned,
                 presented, answers, wrote, history>>

\* WriteWatch that leaves the file alone when no watch rule was accumulated.
WriteWatch_SkipsEmpty ==
  /\ UNCHANGED <<texts, earlier, bvars, qvars, wvars, pvars>>
  /\ pc = "write_watch"
  /\ watchFile' = IF watch_rules = <<>> THEN watchFile
                  ELSE [exists |-> TRUE, rules |-> watch_rules]
  /\ wrote' = IF watch_rules = <<>> THEN wrote ELSE wrote \cup {"watch"}
  /\ pc' = "write_cleanup"
  /\ UNCHANGED <<analyze, ckptFile, cleanupFile, run, exitCode, loopLocals, i,
                 accumulators, warned, presented, answers, history>>

\* main, lines 367 and 370.
WriteWatch ==
  /\ UNCHANGED <<texts, earlier, bvars, qvars, wvars, pvars>>
  /\ pc = "write_watch"
  /\ watchFile' = [exists |-> TRUE, rules |-> watch_rules]
  /\ wrote' = wrote \cup {"watch"}
  /\ pc' = "write_cleanup"
  /\ UNCHANGED <<analyze, ckptFile, cleanupFile, run, exitCode, loopLocals, i,
                 accumulators, warned, presented, answers, history>>

\* main, lines 368 and 371-376.
WriteCleanup ==
  /\ UNCHANGED <<texts, earlier, bvars, qvars, wvars, pvars>>
  /\ pc = "write_cleanup"
  /\ cleanupFile' = [exists |-> TRUE, rules |-> cleanup_rules]
  /\ wrote' = wrote \cup {"cleanup"}
  /\ pc' = "done"
  /\ exitCode' = 0
  /\ UNCHANGED <<analyze, ckptFile, watchFile, run, loopLocals, i,
                 accumulators, warned, presented, answers, history>>

Running == pc \notin {"start", "done", "crashed", "killed"}

\* The process is terminated from outside while it runs: its memory is gone,
\* the files stay as they are.
Kill ==
  /\ UNCHANGED <<texts, earlier, bvars, qvars, wvars, pvars>>
  /\ Running
  /\ pc' = "killed"
  /\ clusters' = <<>>
  /\ checkpoint' = AbsentFile
  /\ resumed' = FALSE
  /\ resume_found' = FALSE
  /\ i' = 0
  /\ watch_rules' = <<>>
  /\ cleanup_rules' = <<>>
  /\ default_folders' = INBOX
  /\ warned' = FALSE
  /\ presented' = <<>>
  /\ answers' = <<>>
  /\ wrote' = {}
  /\ UNCHANGED <<files, run, exitCode, history>>

\* The program is started again on the same input and the same files.
Rerun ==
  /\ UNCHANGED <<texts, bvars, qvars, wvars, pvars>>
  /\ earlier' = [earlier EXCEPT !.watchBefore = watchFile,
                                !.cleanupBefore = cleanupFile]
  /\ pc \in {"done", "crashed", "killed"}
  /\ run < MaxRuns
  /\ run' = run + 1
  /\ prevLast' = lastCompleted
  /\ pc' = "start"
  /\ exitCode' = None
  /\ clusters' = <<>>
  /\ checkpoint' = AbsentFile
  /\ resumed' = FALSE
  /\ resume_found' = FALSE
  /\ i' = 0
  /\ watch_rules' = <<>>
  /\ cleanup_rules' = <<>>
  /\ default_folders' = INBOX
  /\ warned' = FALSE
  /\ presented' = <<>>
  /\ answers' = <<>>
  /\ wrote' = {}
  /\ UNCHANGED <<files, ckptBeforeSave, lastCompleted>>

-----------------------------------------------------------------------------
(* The converter: functions *)

\* A list element that is no string.
NonString == <<None>>

\* regex_to_substring: re.sub(r"\\(.)", r"\1", pattern), left to right; the
\* dot of the expression matches any character but a line feed.
RECURSIVE regex_to_substring(_)
regex_to_substring(pattern) ==
  IF pattern = <<>> THEN <<>>
  ELSE IF pattern[1] = "\\" /\ Len(pattern) >= 2 /\ pattern[2] # "\n"
  THEN <<pattern[2]>> \o regex_to_substring(SubSeq(pattern, 3, Len(pattern)))
  ELSE <<pattern[1]>> \o regex_to_substring(Tail(pattern))

\* The character class of warn_if_regexy.
RegexyChars == {"^", "$", "|", "[", "]", "(", ")", "?", "*", "+"}

\* warn_if_regexy that passes over a character escaped by a backslash.
RECURSIVE warn_if_regexy_SkipsEscaped(_)
warn_if_regexy_SkipsEscaped(original) ==
  IF original = <<>> THEN FALSE
  ELSE IF original[1] = "\\" THEN warn_if_regexy_SkipsEscaped(SubSeq(original, 3, Len(original)))
  ELSE original[1] \in RegexyChars \/ warn_if_regexy_SkipsEscaped(Tail(original))

\* warn_if_regexy: whether it prints its warning.
warn_if_regexy(original) == \E k \in 1..Len(original) : original[k] \in RegexyChars

\* A mapping is a sequence of [key, values] in insertion order; mapping.get(key) or [].
GetList(mapping, key) ==
  IF \E k \in 1..Len(mapping) : mapping[k].key = key
  THEN mapping[CHOOSE k \in 1..Len(mapping) : mapping[k].key = key].values
  ELSE <<>>

IsString(value) == value # NonString

\* map_list that copies the patterns as they are.
map_list_NoUnescape(client, src_key, dest_key) ==
  LET strings == SelectSeq(GetList(client, src_key), IsString)
  IN  IF strings = <<>> THEN <<>> ELSE <<[key |-> dest_key, values |-> strings]>>

\* convert_rule.map_list: the entry it adds to server, if any.
map_list(client, src_key, dest_key) ==
  LET strings == SelectSeq(GetList(client, src_key), IsString)
      mapped == [k \in 1..Len(strings) |-> regex_to_substring(strings[k])]
  IN  IF mapped = <<>> THEN <<>> ELSE <<[key |-> dest_key, values |-> mapped]>>

\* The warnings of one map_list call, in order.
map_list_warnings(client, src_key) ==
  SelectSeq(SelectSeq(GetList(client, src_key), IsString), warn_if_regexy)

\* The four map_list calls of convert_rule, lines 105-108.
FieldMap ==
  << <<"list_id_regex", "list_id_substring">>,
     <<"sender_regex", "sender_substring">>,
     <<"replyto_regex", "replyto_substring">>,
     <<"recipients_regex", "recipients">> >>

\* rule.get("client") or {}
ClientOf(rule) == IF rule.has_client THEN rule.client ELSE <<>>

NoRule == [name |-> None, server |-> <<>>, actions |-> <<>>]

\* convert_rule without the check of line 85.
convert_rule_NoServerCheck(rule, fs) ==
  LET client == ClientOf(rule)
  IN  IF client = <<>>
      THEN [ok |-> FALSE, error |-> "has no client matchers", name |-> rule.name,
            rule |-> NoRule, warned |-> <<>>]
      ELSE [ok |-> TRUE, error |-> None, name |-> rule.name,
            rule |-> [name |-> rule.name,
                      server |-> <<[key |-> "folders", values |-> fs]>>
                                 \o map_list(client, FieldMap[1][1], FieldMap[1][2])
                                 \o map_list(client, FieldMap[2][1], FieldMap[2][2])
                                 \o map_list(client, FieldMap[3][1], FieldMap[3][2])
                                 \o map_list(client, FieldMap[4][1], FieldMap[4][2]),
                      actions |-> rule.actions],
            warned |-> map_list_warnings(client, FieldMap[1][1])
                       \o map_list_warnings(client, FieldMap[2][1])
                       \o map_list_warnings(client, FieldMap[3][1])
                       \o map_list_warnings(client, FieldMap[4][1])]

\* convert_rule: the ValueError it raises, or the converted rule and the
\* warnings printed on the way.
convert_rule(rule, fs) ==
  LET client == ClientOf(rule)
  IN  IF client = <<>>
      THEN [ok |-> FALSE, error |-> "has no client matchers", name |-> rule.name,
            rule |-> NoRule, warned |-> <<>>]
      ELSE IF rule.has_server /\ rule.server # <<>>
      THEN [ok |-> FALSE, error |-> "already has server matchers", name |-> rule.name,
            rule |-> NoRule, warned |-> <<>>]
      ELSE [ok |-> TRUE, error |-> None, name |-> rule.name,
            rule |-> [name |-> rule.name,
                      server |-> <<[key |-> "folders", values |-> fs]>>
                                 \o map_list(client, FieldMap[1][1], FieldMap[1][2])
                                 \o map_list(client, FieldMap[2][1], FieldMap[2][2])
                                 \o map_list(client, FieldMap[3][1], FieldMap[3][2])
                                 \o map_list(client, FieldMap[4][1], FieldMap[4][2]),
                      actions |-> rule.actions],
            warned |-> map_list_warnings(client, FieldMap[1][1])
                       \o map_list_warnings(client, FieldMap[2][1])
                       \o map_list_warnings(client, FieldMap[3][1])
                       \o map_list_warnings(client, FieldMap[4][1])]

\* main, line 136: [item.strip() for item in args.folders.split(",") if item.strip()]
parse_folders(arg) ==
  LET items == Split(arg, ",")
      stripped == [k \in 1..Len(items) |-> Strip(items[k])]
      NonEmpty(item) == item # <<>>
  IN  SelectSeq(stripped, NonEmpty)

-----------------------------------------------------------------------------
(* The converter: inputs and initial state *)

PatEscaped == <<"f", "\\", ".", "c">>
PatRegexy == <<"a", ".", "*">>

ActionDelete == [type |-> "delete", destination |-> None]
ActionMove == [type |-> "move", destination |-> "Old"]

NotAMapping ==
  [mapping |-> FALSE, name |-> None, has_client |-> FALSE, client |-> <<>>,
   has_server |-> FALSE, server |-> <<>>, actions |-> <<>>]

\* Entries of the "rules" sequence: a scalar; a watch rule with one escaped
\* literal; one with a regex, a non-string and an empty server mapping; one
\* without "client" (or with null); one whose client is empty; one that
\* already has server matchers; one with two fields, a repeated pattern and
\* two actions.
RuleEntries ==
  {NotAMapping}
  \cup UNION {
    {[mapping |-> TRUE, name |-> n, has_client |-> TRUE,
      client |-> <<[key |-> "list_id_regex", values |-> <<PatEscaped>>]>>,
      has_server |-> FALSE, server |-> <<>>, actions |-> <<ActionDelete>>],
     [mapping |-> TRUE, name |-> n, has_client |-> TRUE,
      client |-> <<[key |-> "sender_regex", values |-> <<PatRegexy, NonString, PatEscaped>>]>>,
      has_server |-> TRUE, server |-> <<>>, actions |-> <<ActionMove>>],
     [mapping |-> TRUE, name |-> n, has_client |-> FALSE, client |-> <<>>,
      has_server |-> FALSE, server |-> <<>>, actions |-> <<ActionDelete>>],
     [mapping |-> TRUE, name |-> n, has_client |-> TRUE, client |-> <<>>,
      has_server |-> FALSE, server |-> <<>>, actions |-> <<ActionDelete>>],
     [mapping |-> TRUE, name |-> n, has_client |-> TRUE,
      client |-> <<[key |-> "list_id_regex", values |-> <<PatEscaped>>]>>,
      has_server |-> TRUE,
      server |-> <<[key |-> "folders", values |-> << <<"I">> >>]>>,
      actions |-> <<ActionDelete>>]} : n \in {"A", "B"}}
  \cup {[mapping |-> TRUE, name |-> "C", has_client |-> TRUE,
          client |-> <<[key |-> "sender_regex", values |-> <<PatEscaped, PatEscaped>>],
                       [key |-> "list_id_regex", values |-> <<PatRegexy>>]>>,
          has_server |-> FALSE, server |-> <<>>,
          actions |-> <<ActionMove, ActionDelete>>]}

\* The document at --watch: unreadable or not YAML; no mapping; a mapping
\* without "rules"; "rules: null"; or a rule sequence.
WatchDocs ==
  {[shape |-> sh, rules |-> <<>>] :
     sh \in {"unreadable", "nonmapping", "norules", "rulesnull"}}
  \cup {[shape |-> "ok", rules |-> rs] : rs \in SeqsUpTo(RuleEntries, MaxRules)}

\* A watch rule named n whose "client" is the given non-empty mapping.
ClientRule(n, client) ==
  [mapping |-> TRUE, name |-> n, has_client |-> TRUE, client |-> client,
   has_server |-> FALSE, server |-> <<>>, actions |-> <<ActionDelete>>]

\* Entries whose client matcher is not empty: a field convert_rule does not
\* know, a known field with an empty list, one with non-strings only, one
\* with a pattern; and a scalar and a rule without "client".
MatcherEntries ==
  {NotAMapping,
   ClientRule("U", <<[key |-> "subject_regex", values |-> <<PatEscaped>>]>>),
   ClientRule("E", <<[key |-> "sender_regex", values |-> <<>>]>>),
   ClientRule("N", <<[key |-> "list_id_regex", values |-> <<NonString, NonString>>]>>),
   ClientRule("G", <<[key |-> "sender_regex", values |-> <<PatEscaped>>]>>),
   [mapping |-> TRUE, name |-> "X", has_client |-> FALSE, client |-> <<>>,
    has_server |-> FALSE, server |-> <<>>, actions |-> <<ActionDelete>>]}

MatcherDocs ==
  {[shape |-> sh, rules |-> <<>>] :
     sh \in {"unreadable", "nonmapping", "norules", "rulesnull"}}
  \cup {[shape |-> "ok", rules |-> rs] : rs \in SeqsUpTo(MatcherEntries, MaxMatcherRules)}

\* --folders: "I", "I, J", "" and " ,".
FolderArgs == {<<"I">>, <<"I", ",", " ", "J">>, <<>>, <<" ", ",">>}

NoOutFile == [exists |-> FALSE, rules |-> <<>>]
NoFailure == [error |-> None, name |-> None]

BatchLocalsInit ==
  /\ outFile = NoOutFile
  /\ bpc = "start"
  /\ bExit = None
  /\ failure = NoFailure
  /\ folders = <<>>
  /\ rules = <<>>
  /\ converted_rules = <<>>
  /\ ri = 0
  /\ warnings = <<>>

InitBatch ==
  /\ watchDoc \in WatchDocs
  /\ foldersArg \in FolderArgs
  /\ BatchLocalsInit

\* The converter not run.
BatchIdle ==
  /\ watchDoc = [shape |-> "unreadable", rules |-> <<>>]
  /\ foldersArg = <<>>
  /\ BatchLocalsInit

-----------------------------------------------------------------------------
(* The converter: main *)

\* main, lines 129-130: open or yaml.safe_load raises; nothing catches it.
BatchLoadFails ==
  /\ bpc = "start"
  /\ watchDoc.shape = "unreadable"
  /\ bpc' = "crashed"
  /\ bExit' = 1
  /\ failure' = [error |-> "cannot load the watch config", name |-> None]
  /\ UNCHANGED <<watchDoc, foldersArg, outFile, folders, rules, converted_rules,
                 ri, warnings>>
  /\ UNCHANGED <<gvars, qvars, wvars, pvars>>

\* main, lines 132-134.
BatchShapeError ==
  /\ bpc = "start"
  /\ watchDoc.shape \in {"nonmapping", "norules"}
  /\ bpc' = "done"
  /\ bExit' = 1
  /\ failure' = [error |-> "watch config must include rules", name |-> None]
  /\ UNCHANGED <<watchDoc, foldersArg, outFile, folders, rules, converted_rules,
                 ri, warnings>>
  /\ UNCHANGED <<gvars, qvars, wvars, pvars>>

\* main, lines 136-139.
BatchNoFolders ==
  /\ bpc = "start"
  /\ watchDoc.shape \in {"rulesnull", "ok"}
  /\ parse_folders(foldersArg) = <<>>
  /\ bpc' = "done"
  /\ bExit' = 1
  /\ failure' = [error |-> "at least one folder is required", name |-> None]
  /\ UNCHANGED <<watchDoc, foldersArg, outFile, folders, rules, converted_rules,
                 ri, warnings>>
  /\ UNCHANGED <<gvars, qvars, wvars, pvars>>

\* main, lines 136-142: `data.get("rules") or []`.
BatchStart ==
  /\ bpc = "start"
  /\ watchDoc.shape \in {"rulesnull", "ok"}
  /\ parse_folders(foldersArg) # <<>>
  /\ folders' = parse_folders(foldersArg)
  /\ rules' = watchDoc.rules
  /\ converted_rules' = <<>>
  /\ ri' = 1
  /\ bpc' = "convert"
  /\ UNCHANGED <<watchDoc, foldersArg, outFile, bExit, failure, warnings>>
  /\ UNCHANGED <<gvars, qvars, wvars, pvars>>

\* main, lines 143-145: an entry that is no mapping.
BatchSkipEntry ==
  /\ bpc = "convert"
  /\ ri <= Len(rules)
  /\ ~rules[ri].mapping
  /\ ri' = ri + 1
  /\ UNCHANGED <<watchDoc, foldersArg, outFile, bpc, bExit, failure, folders,
                 rules, converted_rules, warnings>>
  /\ UNCHANGED <<gvars, qvars, wvars, pvars>>

\* main, line 146: convert_rule returns.
BatchConvertRule ==
  /\ bpc = "convert"
  /\ ri <= Len(rules)
  /\ rules[ri].mapping
  /\ LET result == convert_rule(rules[ri], folders)
     IN  /\ result.ok
         /\ converted_rules' = Append(converted_rules, result.rule)
         /\ warnings' = warnings \o result.warned
  /\ ri' = ri + 1
  /\ UNCHANGED <<watchDoc, foldersArg, outFile, bpc, bExit, failure, folders,
                 rules>>
  /\ UNCHANGED <<gvars, qvars, wvars, pvars>>

\* main, line 146: convert_rule raises ValueError; nothing catches it.
BatchRuleError ==
  /\ bpc = "convert"
  /\ ri <= Len(rules)
  /\ rules[ri].mapping
  /\ LET result == convert_rule(rules[ri], folders)
     IN  /\ ~result.ok
         /\ failure' = [error |-> result.error, name |-> result.name]
  /\ bpc' = "crashed"
  /\ bExit' = 1
  /\ UNCHANGED <<watchDoc, foldersArg, outFile, folders, rules, converted_rules,
                 ri, warnings>>
  /\ UNCHANGED <<gvars, qvars, wvars, pvars>>

\* main, lines 148-149.
BatchWrite ==
  /\ bpc = "convert"
  /\ ri > Len(rules)
  /\ outFile' = [exists |-> TRUE, rules |-> converted_rules]
  /\ bpc' = "done"
  /\ bExit' = 0
  /\ UNCHANGED <<watchDoc, foldersArg, failure, folders, rules, converted_rules,
                 ri, warnings>>
  /\ UNCHANGED <<gvars, qvars, wvars, pvars>>

NextBatch ==
  \/ BatchLoadFails
  \/ BatchShapeError
  \/ BatchNoFolders
  \/ BatchStart
  \/ BatchSkipEntry
  \/ BatchConvertRule
  \/ BatchRuleError
  \/ BatchWrite

-----------------------------------------------------------------------------
(* The writers' yaml_quote *)

\* yaml_quote of postmanpat-generate-rules.py.
yaml_quote(value) ==
  LET escaped == Replace(Replace(value, "\\", <<"\\", "\\">>), "\"", <<"\\", "\"">>)
  IN  <<"\"">> \o escaped \o <<"\"">>

\* yaml_quote of the converter without the doubling of single quotes.
yaml_quote_convert_NoDoubling(value) ==
  IF Contains(value, "\\")
  THEN <<"'">> \o value \o <<"'">>
  ELSE LET escaped == Replace(Replace(value, "\\", <<"\\", "\\">>), "\"", <<"\\", "\"">>)
       IN  <<"\"">> \o escaped \o <<"\"">>

\* yaml_quote of postmanpat-convert-watch-to-cleanup.py.
yaml_quote_convert(value) ==
  IF Contains(value, "\\")
  THEN LET escaped == Replace(value, "'", <<"'", "'">>)
       IN  <<"'">> \o escaped \o <<"'">>
  ELSE LET escaped == Replace(Replace(value, "\\", <<"\\", "\\">>), "\"", <<"\\", "\"">>)
       IN  <<"\"">> \o escaped \o <<"\"">>

\* The characters of the scalars: a letter, the backslash and the two quotes.
QuoteAlphabet == {"a", "\\", "'", "\""}

InitQuote ==
  /\ qvalue \in SeqsUpTo(QuoteAlphabet, MaxQuoteLen)
  /\ qgen = <<>>
  /\ qconv = <<>>

\* No scalar quoted.
QuoteIdle ==
  /\ qvalue = <<>>
  /\ qgen = <<>>
  /\ qconv = <<>>

\* yaml_lines of the generator quotes a scalar.
QuoteInGenerator ==
  /\ qgen = <<>>
  /\ qgen' = yaml_quote(qvalue)
  /\ UNCHANGED <<qvalue, qconv>>
  /\ UNCHANGED <<gvars, bvars, wvars, pvars>>

\* yaml_lines of the converter quotes a scalar.
QuoteInConverter ==
  /\ qconv = <<>>
  /\ qconv' = yaml_quote_convert(qvalue)
  /\ UNCHANGED <<qvalue, qgen>>
  /\ UNCHANGED <<gvars, bvars, wvars, pvars>>

NextQuote ==
  \/ QuoteInGenerator
  \/ QuoteInConverter

-----------------------------------------------------------------------------
(* The writers' yaml_lines and write_yaml *)

\* Value trees: a node is a string, None, a dict (its items in insertion
\* order) or a list.
Str(chars) == [t |-> "str", v |-> chars, items |-> <<>>]
Null == [t |-> "null", v |-> <<>>, items |-> <<>>]
Dict(items) == [t |-> "dict", v |-> <<>>, items |-> items]
List(items) == [t |-> "list", v |-> <<>>, items |-> items]
Item(key, value) == [key |-> key, value |-> value]

\* str(item) of a scalar: str(None) is "None".
PyStr(node) == IF node.t = "null" THEN <<"N", "o", "n", "e">> ELSE node.v

\* yaml_quote of the writer w.
Quote(w, chars) == IF w = "generator" THEN yaml_quote(chars) ELSE yaml_quote_convert(chars)

\* One line of output: indent blanks, "- " when dash, "key:" when key is not
\* None, and then nothing (open), a quoted scalar, or "{}".
Line(indent, dash, key, form, text) ==
  [indent |-> indent, dash |-> dash, key |-> key, form |-> form, text |-> text]

IsContainer(node) == node.t \in {"dict", "list"}

\* yaml_lines; the two programs' copies differ in yaml_quote only. DictLines is
\* the loop of the dict branch, ListLines the loop of the list branch.
RECURSIVE yaml_lines(_, _, _), DictLines(_, _, _), ListLines(_, _, _)
yaml_lines(value, indent, w) ==
  IF value.t = "dict" THEN DictLines(value.items, indent, w)
  ELSE IF value.t = "list" THEN ListLines(value.items, indent, w)
  ELSE <<Line(indent, FALSE, None, "scalar", Quote(w, PyStr(value)))>>

DictLines(items, indent, w) ==
  IF items = <<>> THEN <<>>
  ELSE LET key == items[1].key
           item == items[1].value
       IN  (IF item.t = "null" THEN <<>>
            ELSE IF IsContainer(item)
            THEN <<Line(indent, FALSE, key, "open", <<>>)>>
                 \o yaml_lines(item, indent + 2, w)
            ELSE <<Line(indent, FALSE, key, "scalar", Quote(w, PyStr(item)))>>)
           \o DictLines(Tail(items), indent, w)

ListLines(items, indent, w) ==
  IF items = <<>> THEN <<>>
  ELSE LET item == items[1]
       IN  (IF item.t = "dict"
            THEN IF item.items = <<>>
                 THEN <<Line(indent, TRUE, None, "empty_dict", <<>>)>>
                 ELSE LET first_key == item.items[1].key
                          first_val == item.items[1].value
                          rest == Tail(item.items)
                      IN  (IF IsContainer(first_val)
                           THEN <<Line(indent, TRUE, first_key, "open", <<>>)>>
                                \o yaml_lines(first_val, indent + 2, w)
                           ELSE <<Line(indent, TRUE, first_key, "scalar",
                                       Quote(w, PyStr(first_val)))>>)
                          \o (IF rest # <<>> THEN DictLines(rest, indent + 2, w)
                              ELSE <<>>)
            ELSE <<Line(indent, TRUE, None, "scalar", Quote(w, PyStr(item)))>>)
           \o ListLines(Tail(items), indent, w)

NotWritten == [exists |-> FALSE, lines |-> <<>>]

\* Scalars of the trees.
ScalarA == <<"A">>
ScalarEscaped == <<"f", "\\", ".">>
ScalarQuotes == <<"'", "\"">>

\* Rule records. A watch rule with one list_id_regex; one with sender_regex
\* and replyto_regex; a cleanup rule with folders and list_id_substring; a
\* watch rule whose optional replyto_regex is an empty list.
WatchRuleList(name, pattern) ==
  Dict(<<Item("name", Str(name)),
         Item("client", Dict(<<Item("list_id_regex", List(<<Str(pattern)>>))>>)),
         Item("actions", List(<<Dict(<<Item("type", Str(<<"d">>))>>)>>))>>)

WatchRuleSender(name, pattern, reply) ==
  Dict(<<Item("name", Str(name)),
         Item("client", Dict(<<Item("sender_regex", List(<<Str(pattern), Str(ScalarA)>>)),
                               Item("replyto_regex", List(reply))>>)),
         Item("actions", List(<<Dict(<<Item("type", Str(<<"m">>)),
                                       Item("destination", Str(ScalarA))>>)>>))>>)

CleanupRuleList(name, substring) ==
  Dict(<<Item("name", Str(name)),
         Item("server", Dict(<<Item("folders", List(<<Str(<<"I">>), Str(<<"J">>)>>)),
                               Item("list_id_substring", List(<<Str(substring)>>))>>)),
         Item("actions", List(<<Dict(<<Item("type", Str(<<"d">>))>>)>>))>>)

WriterScalars == {ScalarA, ScalarEscaped, ScalarQuotes}

RuleRecords ==
  {WatchRuleList(n, p) : n \in {ScalarA, ScalarQuotes}, p \in WriterScalars}
  \cup {WatchRuleSender(ScalarA, p, r) :
          p \in WriterScalars, r \in {<<>>, <<Str(ScalarEscaped)>>}}
  \cup {CleanupRuleList(ScalarA, s) : s \in WriterScalars}

RuleSetOf(rs) == Dict(<<Item("rules", List(rs))>>)

\* The rule sets of at most MaxWriterRules rules.
RuleSets == {RuleSetOf(rs) : rs \in SeqsUpTo(RuleRecords, MaxWriterRules)}

\* Trees with a None value: at the top; in a nested dict; as a later key of
\* a dict that is the item of a list; and as the first key of such a dict.
NullTrees ==
  {Dict(<<Item("note", Null), Item("rules", List(<<WatchRuleList(ScalarA, ScalarA)>>))>>),
   RuleSetOf(<<Dict(<<Item("name", Str(ScalarA)),
                      Item("client", Dict(<<Item("replyto_regex", Null),
                                            Item("sender_regex", List(<<Str(ScalarA)>>))>>))>>)>>),
   RuleSetOf(<<Dict(<<Item("name", Str(ScalarA)),
                      Item("actions", List(<<Dict(<<Item("type", Str(<<"d">>)),
                                                    Item("destination", Null)>>)>>))>>)>>),
   RuleSetOf(<<Dict(<<Item("name", Str(ScalarA)),
                      Item("actions", List(<<Dict(<<Item("destination", Null),
                                                    Item("type", Str(<<"d">>))>>)>>))>>)>>)}

InitWriter ==
  /\ wtree \in RuleSets \cup NullTrees
  /\ wgen = NotWritten
  /\ wconv = NotWritten

\* Nothing written.
WriterIdle ==
  /\ wtree = Null
  /\ wgen = NotWritten
  /\ wconv = NotWritten

\* write_yaml of postmanpat-generate-rules.py.
WriteYamlGenerator ==
  /\ ~wgen.exists
  /\ wgen' = [exists |-> TRUE, lines |-> yaml_lines(wtree, 0, "generator")]
  /\ UNCHANGED <<wtree, wconv>>
  /\ UNCHANGED <<gvars, bvars, qvars, pvars>>

\* write_yaml of postmanpat-convert-watch-to-cleanup.py.
WriteYamlConverter ==
  /\ ~wconv.exists
  /\ wconv' = [exists |-> TRUE, lines |-> yaml_lines(wtree, 0, "converter")]
  /\ UNCHANGED <<wtree, wgen>>
  /\ UNCHANGED <<gvars, bvars, qvars, pvars>>

NextWriter ==
  \/ WriteYamlGenerator
  \/ WriteYamlConverter

-----------------------------------------------------------------------------
(* escape_regex, regex_to_substring and warn_if_regexy on bounded strings *)

\* The characters of the strings: a letter; characters re.escape escapes that
\* are no regex operators; the line feed; and regex operators.
PatternAlphabet == {"a", ".", "-", " ", "\\", "{", "\n", "+", "["}

NotComputed == [done |-> FALSE, text |-> <<>>]
Computed(text) == [done |-> TRUE, text |-> text]
NotJudged == [done |-> FALSE, regexy |-> FALSE]

InitPattern ==
  /\ pvalue \in SeqsUpTo(PatternAlphabet, MaxPatternLen)
  /\ pescaped = NotComputed
  /\ pliteral = NotComputed
  /\ pmapped = NotComputed
  /\ pwarned = NotJudged

\* No string handled.
PatternIdle ==
  /\ pvalue = <<>>
  /\ pescaped = NotComputed
  /\ pliteral = NotComputed
  /\ pmapped = NotComputed
  /\ pwarned = NotJudged

\* build_watch_rule_list, line 174: the default regex of a cluster key.
EscapeKey ==
  /\ ~pescaped.done
  /\ pescaped' = Computed(escape_regex(pvalue))
  /\ UNCHANGED <<pvalue, pliteral, pmapped, pwarned>>
  /\ UNCHANGED <<gvars, bvars, qvars, wvars>>

\* convert_rule.map_list, line 101, on the default regex of the generator.
UnescapeDefault ==
  /\ pescaped.done
  /\ ~pliteral.done
  /\ pliteral' = Computed(regex_to_substring(pescaped.text))
  /\ UNCHANGED <<pvalue, pescaped, pmapped, pwarned>>
  /\ UNCHANGED <<gvars, bvars, qvars, wvars>>

\* convert_rule.map_list, lines 100-101, on the string as a pattern.
MapPattern ==
  /\ ~pmapped.done
  /\ pwarned' = [done |-> TRUE, regexy |-> warn_if_regexy(pvalue)]
  /\ pmapped' = Computed(regex_to_substring(pvalue))
  /\ UNCHANGED <<pvalue, pescaped, pliteral>>
  /\ UNCHANGED <<gvars, bvars, qvars, wvars>>

NextPattern ==
  \/ EscapeKey
  \/ UnescapeDefault
  \/ MapPattern

\* The generator not run.
GenIdle ==
  /\ analyze = [shape |-> "unreadable", list_lens |-> <<>>, sender_lens |-> <<>>]
  /\ ckptFile = AbsentFile
  /\ texts = EnterOnly

vars == <<gvars, bvars, qvars, wvars, pvars>>

\* One run of the generator, from any analysis document and checkpoint file.
Next ==
  \/ LoadFails
  \/ StartCrashes
  \/ StartRun
  \/ SkipCluster
  \/ PresentCluster
  \/ AnswerWatch
  \/ AnswerCleanup
  \/ SaveOpen
  \/ SaveFlushPart
  \/ SaveClose
  \/ LoopEnd
  \/ WriteWatch
  \/ WriteCleanup

Init ==
  InitFiles /\ InitGen /\ BatchIdle /\ QuoteIdle /\ WriterIdle /\ PatternIdle

Spec == Init /\ [][Next]_vars

\* The generator run, quit or killed, and run again over the same analysis
\* document and the files the earlier runs left, starting without a checkpoint
\* file.
InitRerun ==
  /\ InitGen
  /\ BatchIdle
  /\ QuoteIdle
  /\ WriterIdle
  /\ PatternIdle
  /\ analyze \in WellShapedDocs(RerunClusterIds, MaxRerunClusters)
  /\ ckptFile = AbsentFile
  /\ texts = EnterOnly

NextRerun ==
  \/ StartCrashes
  \/ StartRun
  \/ SkipCluster
  \/ PresentCluster
  \/ AnswerWatch
  \/ AnswerCleanup
  \/ SaveOpen
  \/ SaveFlushPart
  \/ SaveClose
  \/ LoopEnd
  \/ WriteWatch
  \/ WriteCleanup
  \/ Kill
  \/ Rerun

SpecRerun == InitRerun /\ [][NextRerun]_vars

\* One run of the generator with an operator who types at the free-text
\* prompts, over clusters with and without keys.
InitSession ==
  /\ InitGen
  /\ BatchIdle
  /\ QuoteIdle
  /\ WriterIdle
  /\ PatternIdle
  /\ analyze \in WellShapedDocs(RerunClusterIds, MaxRerunClusters)
  /\ ckptFile \in {AbsentFile, CkptRecord("list_lens", "a")}
  /\ texts = SessionTexts

NextSession ==
  \/ StartRun
  \/ SkipCluster
  \/ PresentCluster
  \/ AnswerWatch
  \/ AnswerCleanup
  \/ SaveOpen
  \/ SaveFlushPart
  \/ SaveClose
  \/ LoopEnd
  \/ WriteWatch
  \/ WriteCleanup

SpecSession == InitSession /\ [][NextSession]_vars

\* One run of the generator over an analysis document one of whose cluster
\* lists holds an element that is no mapping.
InitMalformed ==
  /\ InitGen
  /\ BatchIdle
  /\ QuoteIdle
  /\ WriterIdle
  /\ PatternIdle
  /\ analyze \in MalformedDocs
  /\ ckptFile \in {AbsentFile, CkptRecord("list_lens", "a"),
                    CkptRecord("sender_lens", "a"), CkptRecord("list_lens", "z")}
  /\ texts = EnterOnly

NextMalformed ==
  \/ StartCrashes
  \/ StartRun
  \/ SkipCluster
  \/ LoopCrashes
  \/ PresentCluster
  \/ AnswerWatch
  \/ AnswerCleanup
  \/ SaveOpen
  \/ SaveFlushPart
  \/ SaveClose
  \/ WriteWatch
  \/ WriteCleanup

SpecMalformed == InitMalformed /\ [][NextMalformed]_vars

\* The converter, from any watch document and --folders argument.
InitConverter ==
  GenIdle /\ InitGen /\ InitBatch /\ QuoteIdle /\ WriterIdle /\ PatternIdle

SpecBatch == InitConverter /\ [][NextBatch]_vars

\* The converter over watch rules whose client matchers name unknown
\* fields, empty lists or non-strings.
InitMatchers ==
  /\ GenIdle
  /\ InitGen
  /\ QuoteIdle
  /\ WriterIdle
  /\ PatternIdle
  /\ watchDoc \in MatcherDocs
  /\ foldersArg \in FolderArgs
  /\ BatchLocalsInit

SpecMatcher == InitMatchers /\ [][NextBatch]_vars

\* The two yaml_quote functions, on every scalar of the bound.
InitQuoting ==
  GenIdle /\ InitGen /\ BatchIdle /\ InitQuote /\ WriterIdle /\ PatternIdle

SpecQuote == InitQuoting /\ [][NextQuote]_vars

\* The two write_yaml functions, on every value tree of the bound.
InitWriting ==
  GenIdle /\ InitGen /\ BatchIdle /\ QuoteIdle /\ InitWriter /\ PatternIdle

SpecWriter == InitWriting /\ [][NextWriter]_vars

\* The pattern functions, on every string of the bound.
InitPatterns ==
  GenIdle /\ InitGen /\ BatchIdle /\ QuoteIdle /\ WriterIdle /\ InitPattern

SpecPattern == InitPatterns /\ [][NextPattern]_vars

-----------------------------------------------------------------------------
(* The generator: properties *)

\* The checkpoint names the cluster at position k of the enumeration.
Names(ckpt, k) ==
  /\ ckpt.kind = "record"
  /\ clusters[k].lens = ckpt.lens
  /\ clusters[k].cluster_id = ckpt.cluster_id

\* The checkpoint record of the cluster at position k.
RecordOf(k) == CkptRecord(clusters[k].lens, clusters[k].cluster_id)

Stale(ckpt) ==
  ckpt.kind = "record" /\ \A k \in 1..Len(clusters) : ~Names(ckpt, k)

\* The operator answered quit at a prompt of the j-th presented cluster.
QuitAt(j) == answers[j].watch = "q" \/ answers[j].cleanup = "q"
Quit == \E j \in 1..Len(answers) : QuitAt(j)

Ended == pc \in {"write_watch", "write_cleanup", "done"}

\* Positions of the clusters the rules of a rule sequence were built for.
ClustersOf(rs) == {rs[k].cluster : k \in 1..Len(rs)}

\* C1. Resume: when the loaded checkpoint names the cluster at position k of
\* the enumeration, the j-th cluster presented is the one at position k + j:
\* none at or before k, the first one right after k, the rest in enumeration
\* order; and a session that ends without a quit has presented all of them.
C1_ResumeAfterCheckpoint ==
  \A k \in 1..Len(clusters) :
    Names(checkpoint, k) =>
      /\ \A j \in 1..Len(presented) : presented[j] = k + j
      /\ (Ended /\ ~Quit) => Len(presented) = Len(clusters) - k

C1_Witness ==
  /\ pc = "done"
  /\ Len(clusters) = 3
  /\ Names(checkpoint, 1)
  /\ presented = <<2, 3>>

\* C2. Stale checkpoint: a session whose loaded checkpoint record names no
\* cluster of the enumeration has warned, and its first presented cluster is
\* the first of the enumeration; it does not end with every cluster skipped.
C2_StaleCheckpointWarns ==
  (Ended /\ Stale(checkpoint)) =>
    /\ warned
    /\ clusters # <<>> => (presented # <<>> /\ presented[1] = 1)

\* C3. Quit at the first prompt of a cluster: no later cluster is presented,
\* the checkpoint file names the last cluster completed before it (or is what
\* the session loaded when there is none), and the written rule sets hold
\* exactly the rules recorded for the clusters presented before it.
C3_QuitAtFirstPrompt ==
  \A j \in 1..Len(answers) :
    answers[j].watch = "q" =>
      /\ j = Len(presented)
      /\ Ended
      /\ ckptFile = IF j > 1 THEN RecordOf(presented[j - 1]) ELSE checkpoint
      /\ pc = "done" =>
           /\ exitCode = 0
           /\ watchFile.exists /\ cleanupFile.exists
           /\ ClustersOf(watchFile.rules) =
                {presented[m] : m \in {n \in 1..(j - 1) : answers[n].watch = "y"}}
           /\ ClustersOf(cleanupFile.rules) =
                {presented[m] : m \in {n \in 1..(j - 1) : answers[n].cleanup = "y"}}

C3_Witness ==
  /\ pc = "done"
  /\ Len(presented) = 2
  /\ answers[1].watch = "y" /\ answers[1].cleanup = "y"
  /\ answers[2].watch = "q"
  /\ Len(watchFile.rules) = 1 /\ Len(cleanupFile.rules) = 1

\* C4. Discard on quit: the rule sets written at the end hold no rule of a
\* cluster at one of whose prompts the operator answered quit.
C4_DiscardOnQuit ==
  pc = "done" =>
    \A j \in 1..Len(answers) :
      QuitAt(j) =>
        presented[j] \notin ClustersOf(watchFile.rules) \cup ClustersOf(cleanupFile.rules)

\* C5. Checkpoint after every completed cluster: while a cluster is shown, and
\* whenever the loop is between clusters, the checkpoint file holds the record
\* of the cluster presented last before, rule or no rule; and a later run
\* over the same input presents first the cluster after the last one whose
\* iteration finished.
C5_CheckpointEveryCluster ==
  /\ (pc \in {"watch_prompt", "cleanup_prompt"} /\ Len(presented) >= 2) =>
       ckptFile = RecordOf(presented[Len(presented) - 1])
  /\ (pc = "loop" /\ presented # <<>>) =>
       (ckptFile = RecordOf(Last(presented)) /\ lastCompleted = Last(presented))
  /\ (run > 1 /\ prevLast > 0 /\ presented # <<>>) => presented[1] = prevLast + 1
  /\ (run > 1 /\ prevLast > 0 /\ prevLast < Len(clusters) /\ Ended) =>
       presented # <<>>

C5_Witness ==
  /\ run = 2
  /\ prevLast = 1
  /\ presented = <<2>>
  /\ watchFile.exists /\ watchFile.rules = <<>>
  /\ cleanupFile.exists /\ cleanupFile.rules = <<>>

\* C6. Final write: a session whose analysis input loaded ends having written
\* both rule sets as accumulated, with exit code 0: after the last cluster,
\* after a quit, with empty rule sets, and with every cluster skipped.
C6_FinalWrite ==
  (pc = "done" /\ analyze.shape \in {"noindexes", "ok"}) =>
    /\ wrote = {"watch", "cleanup"}
    /\ watchFile = [exists |-> TRUE, rules |-> watch_rules]
    /\ cleanupFile = [exists |-> TRUE, rules |-> cleanup_rules]
    /\ exitCode = 0

C6_Witness ==
  /\ pc = "done"
  /\ Len(clusters) = 2
  /\ presented = <<>>
  /\ wrote = {"watch", "cleanup"}
  /\ watchFile.rules = <<>> /\ cleanupFile.rules = <<>>

\* C7. Atomic checkpoint save: at every point of a save the checkpoint file
\* holds the complete previous record or the complete new one, never an
\* empty or partly written document.
C7_AtomicSave ==
  pc = "save_dump" => ckptFile \in {ckptBeforeSave, RecordOf(i)}

\* C9. Input-shape errors are fatal: a document without the required
\* top-level structure (an analysis document that is no mapping or has no
\* "indexes"; a watch document that is no mapping, has no "rules", or has
\* "rules: null") ends the program with exit code 1 and no output file
\* written; exit code 0 only for well-shaped input.
C9_InputShapeFatal ==
  /\ pc \in {"done", "crashed"} =>
       /\ analyze.shape # "ok" => (exitCode = 1 /\ wrote = {})
       /\ exitCode = 0 => analyze.shape = "ok"
  /\ bpc \in {"done", "crashed"} =>
       /\ watchDoc.shape # "ok" => (bExit = 1 /\ ~outFile.exists)
       /\ bExit = 0 => watchDoc.shape = "ok"

\* The default the folders prompt offers after the cleanup rules rs.
FolderDefaultAfter(rs) == IF rs = <<>> THEN INBOX ELSE Join(Last(rs).folders)

\* The cleanup rules built for clusters before position k.
CleanupRulesBefore(k) ==
  LET IsBefore(rule) == rule.cluster < k
  IN  SelectSeq(cleanup_rules, IsBefore)

\* C16. Rolling folder default: the default a folders prompt offers is the
\* comma-joined folder list of the cleanup rule built last before it in this
\* session, INBOX when there is none; the default in hand is always that of
\* the cleanup rules built so far, so a cluster answered no or quit leaves it
\* alone; and every cleanup rule has at least one folder, none of them empty.
C16_RollingFolderDefault ==
  /\ default_folders = FolderDefaultAfter(cleanup_rules)
  /\ \A j \in 1..Len(answers) :
       answers[j].cleanup = "y" =>
         answers[j].offered = FolderDefaultAfter(CleanupRulesBefore(presented[j]))
  /\ \A k \in 1..Len(cleanup_rules) :
       /\ cleanup_rules[k].folders # <<>>
       /\ \A f \in 1..Len(cleanup_rules[k].folders) : cleanup_rules[k].folders[f] # <<>>

C16_Witness ==
  /\ pc = "done"
  /\ Len(answers) = 2
  /\ answers[1].cleanup = "y" /\ answers[1].offered = INBOX
  /\ answers[2].cleanup = "y" /\ answers[2].offered = <<"J", ",", " ", "K">>
  /\ Len(cleanupFile.rules) = 2
  /\ cleanupFile.rules[2].folders = << <<"J">>, <<"K">> >>

\* Positions of the clusters of the enumeration that are mappings, in order.
RECURSIVE MappingPositions(_)
MappingPositions(n) ==
  IF n = 0 THEN <<>>
  ELSE MappingPositions(n - 1) \o (IF clusters[n].mapping THEN <<n>> ELSE <<>>)

\* C17. Malformed elements are skipped, not fatal: an element of a cluster
\* list (or of the watch rule sequence) that is no mapping does not abort the
\* run, and a session that starts at the beginning and is not quit has
\* presented every well-formed cluster, before and after it, in order.
C17_MalformedSkipped ==
  /\ pc = "crashed" => (analyze.shape # "ok" \/ JsonMalformed(ckptFile))
  /\ (Ended /\ ~Quit /\ checkpoint = AbsentFile) =>
       presented = MappingPositions(Len(clusters))
  /\ (bpc = "crashed" /\ ri > 0) => rules[ri].mapping

\* C18. Rules survive quit and resume: when a later run that resumed from
\* the saved checkpoint has finished, the written rule sets hold the rules
\* completed for checkpointed clusters in the earlier run as well as its own,
\* and neither output file holds fewer rules than when the run began.
C18_RulesSurviveResume ==
  (run > 1 /\ pc = "done" /\ prevLast > 0) =>
    /\ Range(earlier.watch) \subseteq Range(watchFile.rules)
    /\ Range(earlier.cleanup) \subseteq Range(cleanupFile.rules)
    /\ Len(watchFile.rules) >= Len(earlier.watchBefore.rules)
    /\ Len(cleanupFile.rules) >= Len(earlier.cleanupBefore.rules)

\* The list of the rule's required matcher field is not empty and holds no
\* empty string.
MatcherNotEmpty(rule) ==
  /\ rule.values # <<>>
  /\ \A k \in 1..Len(rule.values) : rule.values[k] # <<>>

\* C19. No empty matcher pattern from the interactive path: whatever the
\* cluster's keys and whatever the operator types, every rule the session
\* records has a non-empty list for its required matcher field, and no
\* element of it is the empty string.
C19_NoEmptyMatcher ==
  /\ \A k \in 1..Len(watch_rules) : MatcherNotEmpty(watch_rules[k])
  /\ \A k \in 1..Len(cleanup_rules) : MatcherNotEmpty(cleanup_rules[k])

\* The operator answered both tri-state prompts of the j-th presented
\* cluster, neither with quit.
AnsweredBoth(j) ==
  answers[j].watch \in {"y", "n"} /\ answers[j].cleanup \in {"y", "n"}

SavedIndexes == {j \in 1..Len(answers) : answers[j].saved}

\* C20. The checkpoint names only completed clusters and only advances: a
\* cluster whose checkpoint this session wrote (or is writing) had both
\* prompts answered without quit; every cluster presented before it was
\* checkpointed too, and the clusters before the first presented one were
\* skipped by resume (the last of them is the one the loaded checkpoint
\* names); the positions checkpointed increase strictly; and the
\* file holds the record of the last of them, or what was loaded when the
\* session has written none.
C20_CheckpointAdvances ==
  /\ \A j \in SavedIndexes :
       /\ AnsweredBoth(j)
       /\ \A m \in 1..(j - 1) : m \in SavedIndexes /\ presented[m] < presented[j]
  /\ \A j \in 1..Len(presented) : presented[j] = presented[1] + (j - 1)
  /\ (presented # <<>> /\ presented[1] > 1) =>
       Names(checkpoint, presented[1] - 1)
  /\ pc \in {"save_open", "save_dump"} =>
       (AnsweredBoth(Len(answers)) /\ Last(presented) = i)
  /\ (i > 0 /\ pc # "save_dump") =>
       ckptFile = IF SavedIndexes = {} THEN checkpoint
                  ELSE RecordOf(presented[Cardinality(SavedIndexes)])

C20_Witness ==
  /\ pc = "done"
  /\ Len(clusters) = 3
  /\ Names(checkpoint, 1)
  /\ presented = <<2, 3>>
  /\ answers[1].saved /\ answers[1].watch = "y"
  /\ ~answers[2].saved /\ answers[2].cleanup = "q"
  /\ ckptFile = RecordOf(2)

-----------------------------------------------------------------------------
(* The converter: properties *)

EmptyOrMissingClient(entry) == ~entry.has_client \/ entry.client = <<>>

CarriesServer(entry) == entry.has_server /\ entry.server # <<>>

\* Positions of the mapping entries of the input the converter must reject.
OffendingPositions ==
  {k \in 1..Len(watchDoc.rules) :
     /\ watchDoc.rules[k].mapping
     /\ EmptyOrMissingClient(watchDoc.rules[k]) \/ CarriesServer(watchDoc.rules[k])}

FirstOffending ==
  CHOOSE k \in OffendingPositions : \A m \in OffendingPositions : k <= m

\* C8. Batch validation is all-or-nothing: no output file is ever written for
\* an input with an offending mapping entry, wherever it stands; a conversion
\* that got to the rules ends with exit code 1 and an error that names the
\* first offending rule and says what is wrong with it.
C8_BatchAllOrNothing ==
  OffendingPositions # {} =>
    /\ ~outFile.exists
    /\ (bpc \in {"done", "crashed"} /\ ri > 0) =>
         /\ bpc = "crashed"
         /\ bExit = 1
         /\ failure.name = watchDoc.rules[FirstOffending].name
         /\ failure.error =
              IF EmptyOrMissingClient(watchDoc.rules[FirstOffending])
              THEN "has no client matchers"
              ELSE "already has server matchers"

C8_Witness ==
  /\ bpc = "crashed"
  /\ Len(watchDoc.rules) = 3
  /\ OffendingPositions = {3}
  /\ CarriesServer(watchDoc.rules[3])
  /\ Len(converted_rules) = 2
  /\ failure.name = "B"
  /\ ~outFile.exists

-----------------------------------------------------------------------------
(* The converter: the result *)

\* The mapping entries among the first n entries of the input, in order.
MappingEntries(n) ==
  LET IsMapping(entry) == entry.mapping
  IN  SelectSeq(SubSeq(rules, 1, n), IsMapping)

HasKey(mapping, key) == \E k \in 1..Len(mapping) : mapping[k].key = key

KeyCount(mapping, key) == Cardinality({k \in 1..Len(mapping) : mapping[k].key = key})

\* The string patterns of a field of a client matcher.
Patterns(client, field) == SelectSeq(GetList(client, field), IsString)

\* The cleanup rule is what the claim says of the watch rule it came from.
ConvertedFrom(cleanup, watch) ==
  /\ cleanup.name = watch.name
  /\ cleanup.actions = watch.actions
  /\ KeyCount(cleanup.server, "folders") = 1
  /\ GetList(cleanup.server, "folders") = folders
  /\ \A f \in 1..Len(FieldMap) :
       LET pats == Patterns(watch.client, FieldMap[f][1])
           got == GetList(cleanup.server, FieldMap[f][2])
       IN  pats # <<>> =>
             /\ KeyCount(cleanup.server, FieldMap[f][2]) = 1
             /\ Len(got) = Len(pats)
             /\ \A j \in 1..Len(pats) : got[j] = regex_to_substring(pats[j])
  /\ \A f \in 1..Len(FieldMap) :
       \A j \in 1..Len(Patterns(watch.client, FieldMap[f][1])) :
         LET pat == Patterns(watch.client, FieldMap[f][1])[j]
         IN  warn_if_regexy(pat) => pat \in Range(warnings)

\* C12. Batch conversion result: the converted rules are, in input order, one
\* per mapping entry handled so far; each has the name and the actions of its
\* watch rule, the caller's folder list as server.folders and, for each regex
\* field with patterns, the counterpart field holding each pattern unescaped,
\* in order, duplicates kept; a regex-like pattern is warned about; only an
\* entry without client matchers or with server matchers fails; and the
\* output file holds the converted rules.
C12_BatchResult ==
  /\ bpc \in {"convert", "done", "crashed"} /\ ri > 0 =>
       LET entries == MappingEntries(ri - 1)
       IN  /\ folders # <<>>
           /\ \A k \in 1..Len(folders) : folders[k] # <<>>
           /\ Len(converted_rules) = Len(entries)
           /\ \A k \in 1..Len(entries) : ConvertedFrom(converted_rules[k], entries[k])
  /\ (bpc = "crashed" /\ ri > 0) =>
       EmptyOrMissingClient(rules[ri]) \/ CarriesServer(rules[ri])
  /\ outFile.exists => (outFile.rules = converted_rules /\ bExit = 0)

C12_Witness ==
  /\ bpc = "done"
  /\ foldersArg = <<"I", ",", " ", "J">>
  /\ Len(rules) = 3
  /\ rules[1].name = "C" /\ ~rules[2].mapping /\ rules[3].name = "A"
  /\ Len(outFile.rules) = 2
  /\ outFile.rules[1] =
       [name |-> "C",
        server |-> <<[key |-> "folders", values |-> << <<"I">>, <<"J">> >>],
                     [key |-> "list_id_substring", values |-> << <<"a", ".", "*">> >>],
                     [key |-> "sender_substring",
                      values |-> << <<"f", ".", "c">>, <<"f", ".", "c">> >>]>>,
        actions |-> <<ActionMove, ActionDelete>>]
  /\ outFile.rules[2] =
       [name |-> "A",
        server |-> <<[key |-> "folders", values |-> << <<"I">>, <<"J">> >>],
                     [key |-> "list_id_substring", values |-> << <<"f", ".", "c">> >>]>>,
        actions |-> <<ActionDelete>>]
  /\ warnings = <<PatRegexy>>

\* The destination fields of convert_rule's map_list calls.
SubstringFields == {FieldMap[f][2] : f \in 1..Len(FieldMap)}

\* The cleanup rule carries a substring matcher field besides folders, with
\* a list that is not empty.
HasSubstringMatcher(cleanup) ==
  \E j \in 1..Len(cleanup.server) :
    /\ cleanup.server[j].key \in SubstringFields
    /\ cleanup.server[j].values # <<>>

\* C21. Batch output never has an empty matcher: every cleanup rule the
\* converter produced from an accepted watch rule, in its list and in the
\* output file, carries at least one substring matcher field besides
\* folders, with a non-empty list.
C21_BatchMatcherNotEmpty ==
  /\ \A k \in 1..Len(converted_rules) : HasSubstringMatcher(converted_rules[k])
  /\ outFile.exists =>
       \A k \in 1..Len(outFile.rules) : HasSubstringMatcher(outFile.rules[k])

-----------------------------------------------------------------------------
(* The writers' yaml_quote: properties *)

Body(out) == SubSeq(out, 2, Len(out) - 1)

\* The text between double quotes is well formed when every backslash starts
\* an escape of a backslash or of a double quote and no double quote is bare.
RECURSIVE DoubleQuotedBodyOk(_)
DoubleQuotedBodyOk(body) ==
  IF body = <<>> THEN TRUE
  ELSE IF body[1] = "\\"
  THEN /\ Len(body) >= 2
       /\ body[2] \in {"\\", "\""}
       /\ DoubleQuotedBodyOk(SubSeq(body, 3, Len(body)))
  ELSE body[1] # "\"" /\ DoubleQuotedBodyOk(Tail(body))

\* What a reader takes it for.
RECURSIVE DoubleQuotedBodyValue(_)
DoubleQuotedBodyValue(body) ==
  IF body = <<>> THEN <<>>
  ELSE IF body[1] = "\\" /\ Len(body) >= 2
  THEN <<body[2]>> \o DoubleQuotedBodyValue(SubSeq(body, 3, Len(body)))
  ELSE <<body[1]>> \o DoubleQuotedBodyValue(Tail(body))

\* The text between single quotes is well formed when every single quote is
\* doubled; nothing else is an escape there.
RECURSIVE SingleQuotedBodyOk(_)
SingleQuotedBodyOk(body) ==
  IF body = <<>> THEN TRUE
  ELSE IF body[1] = "'"
  THEN /\ Len(body) >= 2
       /\ body[2] = "'"
       /\ SingleQuotedBodyOk(SubSeq(body, 3, Len(body)))
  ELSE SingleQuotedBodyOk(Tail(body))

RECURSIVE SingleQuotedBodyValue(_)
SingleQuotedBodyValue(body) ==
  IF body = <<>> THEN <<>>
  ELSE IF body[1] = "'" /\ Len(body) >= 2
  THEN <<"'">> \o SingleQuotedBodyValue(SubSeq(body, 3, Len(body)))
  ELSE <<body[1]>> \o SingleQuotedBodyValue(Tail(body))

\* out is value in double quotes, backslashes and double quotes escaped.
DoubleQuoted(out, value) ==
  /\ Len(out) >= 2
  /\ out[1] = "\"" /\ Last(out) = "\""
  /\ DoubleQuotedBodyOk(Body(out))
  /\ DoubleQuotedBodyValue(Body(out)) = value

\* out is value in single quotes, single quotes doubled.
SingleQuoted(out, value) ==
  /\ Len(out) >= 2
  /\ out[1] = "'" /\ Last(out) = "'"
  /\ SingleQuotedBodyOk(Body(out))
  /\ SingleQuotedBodyValue(Body(out)) = value

-----------------------------------------------------------------------------
(* The writers' yaml_lines: properties *)

\* A block-style reader. A "- " line is an entry mark at its indent followed
\* by its content two columns further in.
ReaderLine(indent, kind, key, form, text) ==
  [indent |-> indent, kind |-> kind, key |-> key, form |-> form, text |-> text]

RECURSIVE Expand(_)
Expand(lines) ==
  IF lines = <<>> THEN <<>>
  ELSE LET l == lines[1]
           kind == IF l.key # None THEN "key" ELSE l.form
       IN  (IF l.dash
            THEN <<ReaderLine(l.indent, "dash", None, "open", <<>>),
                   ReaderLine(l.indent + 2, kind, l.key, l.form, l.text)>>
            ELSE <<ReaderLine(l.indent, kind, l.key, l.form, l.text)>>)
           \o Expand(Tail(lines))

\* The value of a quoted scalar.
Unquote(text) ==
  IF text[1] = "\"" THEN DoubleQuotedBodyValue(Body(text))
  ELSE SingleQuotedBodyValue(Body(text))

\* ReadNode reads the node that starts at line p; ReadSeq and ReadDict go on
\* with a sequence or mapping at column c, acc holding what was read of it.
\* A key or an entry mark with nothing under it has the value null; a
\* sequence may stand at the column of the key it is the value of.
RECURSIVE ReadNode(_, _), ReadSeq(_, _, _, _), ReadDict(_, _, _, _)
ReadNode(ls, p) ==
  IF ls[p].kind = "dash" THEN ReadSeq(ls, p, ls[p].indent, <<>>)
  ELSE IF ls[p].kind = "key" THEN ReadDict(ls, p, ls[p].indent, <<>>)
  ELSE IF ls[p].kind = "empty_dict" THEN [value |-> Dict(<<>>), next |-> p + 1]
  ELSE [value |-> Str(Unquote(ls[p].text)), next |-> p + 1]

ReadSeq(ls, p, c, acc) ==
  IF p > Len(ls) \/ ls[p].kind # "dash" \/ ls[p].indent # c
  THEN [value |-> List(acc), next |-> p]
  ELSE IF p + 1 <= Len(ls) /\ ls[p + 1].indent > c
  THEN LET r == ReadNode(ls, p + 1)
       IN  ReadSeq(ls, r.next, c, Append(acc, r.value))
  ELSE ReadSeq(ls, p + 1, c, Append(acc, Null))

ReadDict(ls, p, c, acc) ==
  IF p > Len(ls) \/ ls[p].kind # "key" \/ ls[p].indent # c
  THEN [value |-> Dict(acc), next |-> p]
  ELSE IF ls[p].form = "scalar"
  THEN ReadDict(ls, p + 1, c, Append(acc, Item(ls[p].key, Str(Unquote(ls[p].text)))))
  ELSE IF ls[p].form = "empty_dict"
  THEN ReadDict(ls, p + 1, c, Append(acc, Item(ls[p].key, Dict(<<>>))))
  ELSE IF /\ p + 1 <= Len(ls)
          /\ \/ ls[p + 1].indent > c
             \/ ls[p + 1].indent = c /\ ls[p + 1].kind = "dash"
  THEN LET r == ReadNode(ls, p + 1)
       IN  ReadDict(ls, r.next, c, Append(acc, Item(ls[p].key, r.value)))
  ELSE ReadDict(ls, p + 1, c, Append(acc, Item(ls[p].key, Null)))

Unreadable == [t |-> "unreadable", v |-> <<>>, items |-> <<>>]

\* The value tree of a document; the empty document is null.
Read(lines) ==
  IF lines = <<>> THEN Null
  ELSE LET ls == Expand(lines)
           r == ReadNode(ls, 1)
       IN  IF r.next = Len(ls) + 1 THEN r.value ELSE Unreadable

\* C11. Writer round-trip: for every rule set without a null field, the empty
\* rule sequence included, what a block-style reader reads from the text
\* either writer produced is the original value tree.
C11_WriterRoundTrip ==
  wtree \in RuleSets =>
    /\ wgen.exists => Read(wgen.lines) = wtree
    /\ wconv.exists => Read(wconv.lines) = wtree

\* The keys of a value tree whose value is null, at any depth.
RECURSIVE NullKeys(_)
NullKeys(node) ==
  IF node.t = "dict"
  THEN UNION {IF node.items[k].value.t = "null" THEN {node.items[k].key}
              ELSE NullKeys(node.items[k].value) : k \in 1..Len(node.items)}
  ELSE IF node.t = "list"
  THEN UNION {NullKeys(node.items[k]) : k \in 1..Len(node.items)}
  ELSE {}

KeysOf(lines) == {lines[k].key : k \in 1..Len(lines)} \ {None}

\* C15. Null omission in the writer: no key whose value is null appears in
\* the output of either writer, at any depth and in any position, the first
\* key of a mapping that is an item of a sequence included. (In the trees of
\* the model a key that is null somewhere is null wherever it occurs.)
C15_NullOmission ==
  /\ wgen.exists => KeysOf(wgen.lines) \cap NullKeys(wtree) = {}
  /\ wconv.exists => KeysOf(wconv.lines) \cap NullKeys(wtree) = {}

-----------------------------------------------------------------------------
(* escape_regex, regex_to_substring and warn_if_regexy: properties *)

\* The regex operators of the claims.
Metacharacters == {"^", "$", "|", "[", "]", "(", ")", "?", "*", "+"}

HasMetacharacter(chars) == \E k \in 1..Len(chars) : chars[k] \in Metacharacters

\* C13. Normalizer round-trip: for every literal string without a regex
\* operator, whatever else of what the escaper escapes it holds, removing the
\* escapes from its escaped form gives the string back.
C13_NormalizerRoundTrip ==
  (pliteral.done /\ ~HasMetacharacter(pvalue)) => pliteral.text = pvalue

\* C14. Regex-likeness check: the check signals exactly for a pattern that
\* holds one of ^ $ | [ ] ( ) ? * +, judged on the pattern as written: an
\* escaped operator signals too, and '.', '{', '}', '-' and the backslash do
\* not; and what is signalled is one decision, the unescaping another.
C14_RegexLikeness ==
  pwarned.done =>
    /\ pwarned.regexy <=> HasMetacharacter(pvalue)
    /\ (\A k \in 1..Len(pvalue) : pvalue[k] \in {"a", ".", "-", " ", "\\", "{", "\n"})
         => ~pwarned.regexy
    /\ (\E k \in 1..(Len(pvalue) - 1) : pvalue[k] = "\\" /\ pvalue[k + 1] \in {"+", "["})
         => pwarned.regexy

C14_Witness ==
  /\ pvalue = <<"a", "\\", "+">>
  /\ pwarned = [done |-> TRUE, regexy |-> TRUE]
  /\ pmapped = Computed(<<"a", "+">>)

====
